---------------------------- MODULE Spec2Model ----------------------------
(***************************************************************************)
(* Model of the FIFA 4x4 predictor web front-end.  The repository holds    *)
(* four versions of the single-page app:                                   *)
(*   "appA"  src/app.js lines 1-395      (generatePrediction)              *)
(*   "appB"  src/app.js lines 397-880    (fetchPredictionFromAPI)          *)
(*   "p000"  src/unnamed/part_000        (getPrediction/generatePrediction)*)
(*   "p001"  src/unnamed/part_001        (single prediction page)          *)
(* The state is the part of the DOM the scripts read and write, the queue  *)
(* of pending setTimeout callbacks, and the last prediction produced.      *)
(***************************************************************************)
EXTENDS Integers, Sequences, FiniteSets, TLC

(***************************************************************************)
(* Bounds of the model.                                                    *)
(***************************************************************************)
\* Math.random() returns d / RandDen for an integer 0 <= d < RandDen.
RandDen == 100
\* A tape of draws differs from a constant tape in at most MaxVaried places.
MaxVaried == 1
\* At most MaxPending prediction timers are pending at once.
MaxPending == 1

Variants == {"appA", "appB", "p000", "p001"}

\* Two of the teams loadTeamsList puts in the dropdowns.
TeamNames == {"Arsenal", "Chelsea"}
\* value of the placeholder <option value="" disabled selected>
Unselected == ""
TeamValues == TeamNames \cup {Unselected}

(***************************************************************************)
(* Text of the odds inputs: a string is a sequence of characters, so that  *)
(* parseFloat is computed the way JavaScript computes it.                  *)
(***************************************************************************)
T_empty == << >>
T_abc   == <<"a", "b", "c">>
T_100   == <<"1", ".", "0", "0">>
T_101   == <<"1", ".", "0", "1">>
T_120   == <<"1", ".", "2", "0">>
T_650   == <<"6", ".", "5", "0">>
OddsTexts == {T_empty, T_abc, T_100, T_101, T_120, T_650}
\* what the user leaves in the two odds inputs
OddsForms == {<<T_101, T_101>>, <<T_100, T_101>>, <<T_101, T_100>>,
              <<T_abc, T_101>>, <<T_101, T_empty>>}

Digits == {"0", "1", "2", "3", "4", "5", "6", "7", "8", "9"}

DigitVal(c) ==
    CASE c = "0" -> 0 [] c = "1" -> 1 [] c = "2" -> 2 [] c = "3" -> 3
      [] c = "4" -> 4 [] c = "5" -> 5 [] c = "6" -> 6 [] c = "7" -> 7
      [] c = "8" -> 8 [] c = "9" -> 9

RECURSIVE Pow10(_)
Pow10(n) == IF n = 0 THEN 1 ELSE 10 * Pow10(n - 1)

\* number of leading decimal digits of s
RECURSIVE DigitRun(_)
DigitRun(s) ==
    IF s = << >> \/ Head(s) \notin Digits THEN 0 ELSE 1 + DigitRun(Tail(s))

\* value of a sequence of decimal digits
RECURSIVE DigitsValue(_)
DigitsValue(s) ==
    IF s = << >> THEN 0
    ELSE DigitsValue(SubSeq(s, 1, Len(s) - 1)) * 10 + DigitVal(s[Len(s)])

RECURSIVE SkipSpaces(_)
SkipSpaces(s) ==
    IF s # << >> /\ Head(s) = " " THEN SkipSpaces(Tail(s)) ELSE s

NaN == [nan |-> TRUE, num |-> 0, den |-> 1]

(***************************************************************************)
(* parseFloat: leading white space, an optional sign, the longest prefix   *)
(* that is a decimal literal; NaN when there is no digit.  The value is    *)
(* the exact rational num/den.                                             *)
(***************************************************************************)
parseFloat(str) ==
    LET s0    == SkipSpaces(str)
        neg   == s0 # << >> /\ Head(s0) = "-"
        s1    == IF s0 # << >> /\ Head(s0) \in {"-", "+"} THEN Tail(s0) ELSE s0
        ni    == DigitRun(s1)
        ip    == SubSeq(s1, 1, ni)
        rest  == SubSeq(s1, ni + 1, Len(s1))
        hasPt == rest # << >> /\ Head(rest) = "."
        nf    == IF hasPt THEN DigitRun(Tail(rest)) ELSE 0
        fp    == IF hasPt THEN SubSeq(Tail(rest), 1, nf) ELSE << >>
        mag   == DigitsValue(ip) * Pow10(nf) + DigitsValue(fp)
    IN  IF ni = 0 /\ nf = 0 THEN NaN
        ELSE [nan |-> FALSE, num |-> IF neg THEN 0 - mag ELSE mag,
              den |-> Pow10(nf)]

\* x < 1.01 on numbers; every comparison with NaN is false.
LessThan101(x) == ~x.nan /\ x.num * 100 < 101 * x.den
\* x >= 1.01 on numbers; false for NaN.
AtLeast101(x) == ~x.nan /\ x.num * 100 >= 101 * x.den

\* !value on the text of an input: the empty string is the only falsy string
NoText(s) == s = << >>

(***************************************************************************)
(* Math.random().  One invocation of a generator consumes one tape: the    *)
(* draw of call site i is tape[i] / RandDen.                               *)
(***************************************************************************)
TapeLen == 28
\* one draw in each interval the scripts distinguish (< 0.4, <= 0.5, <= 0.6,
\* < 0.8, the top of the range)
DrawSet == {0, (42 * RandDen) \div 100, (54 * RandDen) \div 100,
            (66 * RandDen) \div 100, (98 * RandDen) \div 100}

ConstTapes == {[i \in 1..TapeLen |-> d] : d \in DrawSet}
\* the two extreme tapes: every draw 0, every draw at the top of the range
ExtremeTapes == {[i \in 1..TapeLen |-> 0],
                 [i \in 1..TapeLen |-> (98 * RandDen) \div 100]}

RECURSIVE VariedTapes(_)
VariedTapes(k) ==
    IF k = 0 THEN ConstTapes
    ELSE LET prev == VariedTapes(k - 1)
         IN  prev \cup {[t EXCEPT ![i] = d] :
                          t \in prev, i \in 1..TapeLen, d \in DrawSet}

Tapes == VariedTapes(MaxVaried)

\* Math.floor(Math.random() * n)
FloorRand(d, n) == (d * n) \div RandDen
\* Math.random() > p/10
RandGreater(d, p) == d * 10 > p * RandDen
\* Math.random() < p/10
RandLess(d, p) == d * 10 < p * RandDen
\* (Math.random() * n + k).toFixed(1), in tenths
RandFixed1(d, n, k) == (2 * (d * n * 10 + k * 10 * RandDen) + RandDen) \div (2 * RandDen)

\* "h:a" : the two goal counts of a score string
Score(h, a) == <<h, a>>

\* a scoreline whose confidence is drawn over 0..99 instead of 0..range-1
ScoreEntry_RangeHundred(t, i, nh, na, range, base) ==
    [score      |-> Score(FloorRand(t[i], nh), FloorRand(t[i + 1], na)),
     confidence |-> FloorRand(t[i + 2], 100) + base]

\* one scoreline: { score: floor(r*nh) + ":" + floor(r*na),
\*                  confidence: floor(r*range) + base }
ScoreEntry(t, i, nh, na, range, base) ==
    [score      |-> Score(FloorRand(t[i], nh), FloorRand(t[i + 1], na)),
     confidence |-> FloorRand(t[i + 2], range) + base]

\* Math.random() > 0.6 ? team1 : (Math.random() > 0.5 ? team2 : nul)
PickWinner(t, i, t1, t2, nul) ==
    IF RandGreater(t[i], 6) THEN t1
    ELSE IF RandGreater(t[i + 1], 5) THEN t2 ELSE nul

\* r < 0.4 ? team1 : r < 0.8 ? team2 : "Nul"
PickWinner000(d, t1, t2) ==
    IF RandLess(d, 4) THEN t1 ELSE IF RandLess(d, 8) THEN t2 ELSE "Nul"

\* goal thresholds, in tenths of a goal (5 is 0.5)
HalfGoalsA == <<5, 15, 25, 35>>
FullGoalsA == <<5, 15, 25, 35, 45>>
HalfGoalsB == <<5, 15, 25>>
FullGoalsB == <<15, 25, 35, 45>>
HalfGoals000 == <<5, 15, 25, 35>>
FullGoals000 == <<5, 15, 25, 35, 45, 55>>

\* list[Math.floor(Math.random() * list.length)]
PickFrom(list, d) == list[FloorRand(d, Len(list)) + 1]

(***************************************************************************)
(* app.js (first version) generatePrediction: the values it hands to       *)
(* displayResults.                                                         *)
(***************************************************************************)
generatePredictionA(t1, t2, o1, o2, t) ==
    [team1 |-> t1, team2 |-> t2, odds1 |-> o1, odds2 |-> o2,
     halfTimeScores |-> << ScoreEntry(t, 1, 3, 3, 20, 50),
                           ScoreEntry(t, 4, 3, 3, 15, 45) >>,
     fullTimeScores |-> << ScoreEntry(t, 7, 5, 5, 20, 50),
                           ScoreEntry(t, 10, 5, 5, 15, 45) >>,
     halfTimeWinner |-> PickWinner(t, 13, t1, t2, "Match nul"),
     halfTimeProbability |-> FloorRand(t[15], 20) + 55,
     fullTimeWinner |-> PickWinner(t, 16, t1, t2, "Match nul"),
     fullTimeProbability |-> FloorRand(t[18], 20) + 60,
     halfTimeGoals |-> PickFrom(HalfGoalsA, t[19]),
     fullTimeGoals |-> PickFrom(FullGoalsA, t[20])]

(***************************************************************************)
(* app.js (second version) fetchPredictionFromAPI: the prediction object   *)
(* built in its 500 ms callback.                                           *)
(***************************************************************************)
fetchPredictionB(t1, t2, o1, o2, t) ==
    [team1 |-> t1, team2 |-> t2,
     halfTimeScores |-> << ScoreEntry(t, 1, 2, 2, 15, 65),
                           ScoreEntry(t, 4, 2, 2, 10, 55) >>,
     fullTimeScores |-> << ScoreEntry(t, 7, 3, 3, 15, 65),
                           ScoreEntry(t, 10, 3, 3, 10, 55) >>,
     halfTimeWinner |-> [team |-> PickWinner(t, 13, t1, t2, "Match nul"),
                         probability |-> FloorRand(t[15], 15) + 65],
     fullTimeWinner |-> [team |-> PickWinner(t, 16, t1, t2, "Match nul"),
                         probability |-> FloorRand(t[18], 15) + 65],
     halfTimeGoals |-> [line |-> PickFrom(HalfGoalsB, t[19]),
                        isOver |-> RandGreater(t[20], 5),
                        percentage |-> FloorRand(t[21], 15) + 65],
     fullTimeGoals |-> [line |-> PickFrom(FullGoalsB, t[22]),
                        isOver |-> RandGreater(t[23], 5),
                        percentage |-> FloorRand(t[24], 15) + 65]]

(***************************************************************************)
(* part_000 generatePrediction.                                            *)
(***************************************************************************)
generatePrediction000(t1, t2, o1, o2, t) ==
    [teams |-> [team1 |-> t1, team2 |-> t2],
     odds  |-> [team1 |-> o1, team2 |-> o2],
     direct_matches |-> FloorRand(t[17], 50) + 10,
     half_time_scores |-> << ScoreEntry(t, 1, 3, 3, 30, 60),
                             ScoreEntry(t, 4, 3, 3, 20, 50) >>,
     full_time_scores |-> << ScoreEntry(t, 7, 5, 5, 30, 60),
                             ScoreEntry(t, 10, 5, 5, 20, 50) >>,
     winner_half_time |-> [team |-> PickWinner000(t[13], t1, t2),
                           probability |-> FloorRand(t[18], 30) + 60],
     winner_full_time |-> [team |-> PickWinner000(t[14], t1, t2),
                           probability |-> FloorRand(t[19], 30) + 60],
     goals_thresholds |-> [half_time |-> PickFrom(HalfGoals000, t[15]),
                           full_time |-> PickFrom(FullGoals000, t[16])],
     avg_goals_half_time |-> RandFixed1(t[20], 3, 1),
     avg_goals_full_time |-> RandFixed1(t[21], 5, 2),
     confidence_level |-> FloorRand(t[22], 30) + 60]

\* odds || null
OrNull(o) == IF NoText(o) THEN [null |-> TRUE, text |-> << >>]
             ELSE [null |-> FALSE, text |-> o]

(***************************************************************************)
(* part_001 generatePrediction.                                            *)
(***************************************************************************)
generatePrediction001(t1, t2, o1, o2, t) ==
    [teams |-> [team1 |-> t1, team2 |-> t2],
     odds  |-> [team1 |-> OrNull(o1), team2 |-> OrNull(o2)],
     direct_matches |-> FloorRand(t[1], 50) + 10,
     half_time_scores |-> << ScoreEntry(t, 2, 3, 3, 30, 60),
                             ScoreEntry(t, 5, 3, 3, 20, 50),
                             ScoreEntry(t, 8, 3, 2, 20, 40) >>,
     full_time_scores |-> << ScoreEntry(t, 11, 5, 5, 30, 60),
                             ScoreEntry(t, 14, 5, 5, 20, 50),
                             ScoreEntry(t, 17, 4, 4, 20, 40) >>,
     winner_half_time |-> [team |-> PickWinner(t, 20, t1, t2, "Nul"),
                           probability |-> FloorRand(t[22], 30) + 60],
     winner_full_time |-> [team |-> PickWinner(t, 23, t1, t2, "Nul"),
                           probability |-> FloorRand(t[25], 30) + 60],
     avg_goals_half_time |-> RandFixed1(t[26], 3, 1),
     avg_goals_full_time |-> RandFixed1(t[27], 5, 2),
     confidence_level |-> FloorRand(t[28], 30) + 60]

\* the prediction generator of version v
Generate(v, t1, t2, o1, o2, t) ==
    CASE v = "appA" -> generatePredictionA(t1, t2, o1, o2, t)
      [] v = "appB" -> fetchPredictionB(t1, t2, o1, o2, t)
      [] v = "p000" -> generatePrediction000(t1, t2, o1, o2, t)
      [] v = "p001" -> generatePrediction001(t1, t2, o1, o2, t)

(***************************************************************************)
(* What a prediction reports, read per period ("half" or "full") the way   *)
(* the display functions read it.                                          *)
(***************************************************************************)
Periods == {"half", "full"}

ScoresOf(v, p, per) ==
    IF v \in {"appA", "appB"}
    THEN (IF per = "half" THEN p.halfTimeScores ELSE p.fullTimeScores)
    ELSE (IF per = "half" THEN p.half_time_scores ELSE p.full_time_scores)

WinnerTeamOf(v, p, per) ==
    CASE v = "appA" -> (IF per = "half" THEN p.halfTimeWinner ELSE p.fullTimeWinner)
      [] v = "appB" -> (IF per = "half" THEN p.halfTimeWinner.team
                                        ELSE p.fullTimeWinner.team)
      [] OTHER      -> (IF per = "half" THEN p.winner_half_time.team
                                        ELSE p.winner_full_time.team)

WinnerProbOf(v, p, per) ==
    CASE v = "appA" -> (IF per = "half" THEN p.halfTimeProbability
                                        ELSE p.fullTimeProbability)
      [] v = "appB" -> (IF per = "half" THEN p.halfTimeWinner.probability
                                        ELSE p.fullTimeWinner.probability)
      [] OTHER      -> (IF per = "half" THEN p.winner_half_time.probability
                                        ELSE p.winner_full_time.probability)

\* the goal line reported for a period: its threshold, and the side and
\* percentage where the version reports them
GoalReportOf(v, p, per) ==
    CASE v = "appA" ->
           [reported |-> TRUE, hasSide |-> FALSE, isOver |-> FALSE, percentage |-> 0,
            line |-> IF per = "half" THEN p.halfTimeGoals ELSE p.fullTimeGoals]
      [] v = "appB" ->
           LET g == IF per = "half" THEN p.halfTimeGoals ELSE p.fullTimeGoals
           IN  [reported |-> TRUE, hasSide |-> TRUE, isOver |-> g.isOver,
                percentage |-> g.percentage, line |-> g.line]
      [] v = "p000" ->
           [reported |-> TRUE, hasSide |-> FALSE, isOver |-> FALSE, percentage |-> 0,
            line |-> IF per = "half" THEN p.goals_thresholds.half_time
                                     ELSE p.goals_thresholds.full_time]
      [] v = "p001" ->
           [reported |-> FALSE, hasSide |-> FALSE, isOver |-> FALSE,
            percentage |-> 0, line |-> 0]

TeamsOf(v, p) ==
    IF v \in {"appA", "appB"} THEN <<p.team1, p.team2>>
    ELSE <<p.teams.team1, p.teams.team2>>

(***************************************************************************)
(* The pages.  The scripts name every page but the one that is active when *)
(* the document loads and holds the verify-subscription button.            *)
(***************************************************************************)
SubscriptionPage == "subscription-page"

\* the pages of a version, in the order the user walks through them
PageFlow(v) ==
    IF v = "p001"
    THEN <<SubscriptionPage, "game-intro", "prediction-page">>
    ELSE <<SubscriptionPage, "dashboard-page", "teams-selection-page",
           "odds-page", "analysis-page", "results-page">>

Pages(v) == {PageFlow(v)[i] : i \in 1..Len(PageFlow(v))}

PageIndex(v, pg) == CHOOSE i \in 1..Len(PageFlow(v)) : PageFlow(v)[i] = pg

\* data-target of a back button on page pg.  The markup is not part of the
\* scripts; every page earlier in the flow is taken as a possible target.
BackTargets(v, pg) ==
    {PageFlow(v)[i] : i \in 1..(PageIndex(v, pg) - 1)}

\* an identifier that no element of the document carries
MissingPage == "missing-page"

\* delays of the setTimeout calls, in milliseconds
PredictDelay == 4000
PredictDelay001 == 2000
FetchDelay == 500
SubscriptionDelay == 1500
MessageStep == 600
MessageCount == 6

NoRequest == [team1 |-> "", team2 |-> "", odds1 |-> << >>, odds2 |-> << >>]
Request(t1, t2, o1, o2) == [team1 |-> t1, team2 |-> t2, odds1 |-> o1, odds2 |-> o2]

NoPrediction == [none |-> TRUE]
NothingRendered == [matchTeams |-> <<"", "">>, halfTimeWinner |-> "",
                    fullTimeWinner |-> ""]

\* |over - under| reference statistics of a goal line (spec section 3)
GoalEntry(l, u, o) == [line |-> l, under |-> u, over |-> o]

\* the table of the spec's example (section 8), and one with a tie
GoalTableExample ==
    [half |-> <<GoalEntry(5, 30, 70), GoalEntry(15, 62, 38), GoalEntry(25, 78, 22)>>,
     full |-> <<GoalEntry(15, 30, 70), GoalEntry(25, 62, 38), GoalEntry(35, 78, 22)>>]
GoalTableTie ==
    [half |-> <<GoalEntry(5, 25, 75), GoalEntry(15, 62, 38), GoalEntry(25, 75, 25)>>,
     full |-> <<GoalEntry(15, 25, 75), GoalEntry(25, 62, 38), GoalEntry(35, 75, 25)>>]
GoalTables == {GoalTableExample, GoalTableTie}

(***************************************************************************)
(* The deploy initialisation script (.github/workflows/deploy.yml): where  *)
(* main is, its arguments, the configuration, what the database holds,     *)
(* what each check returned and what main returned.                        *)
(***************************************************************************)
Unset == "unset"
\* Python's True and False, as the field values of a run
PyBool(b) == IF b THEN "True" ELSE "False"

DeployRun(pc, force, skip, useMongo, matches) ==
    [pc |-> pc,                      \* the statement of main to run next
     force_migration |-> force,      \* args.force_migration
     skip_migration |-> skip,        \* args.skip_migration
     USE_MONGODB |-> useMongo,       \* config.USE_MONGODB
     matches_count |-> matches,      \* documents in db.matches
     connection |-> Unset,           \* check_mongodb_connection()
     indexes |-> Unset,              \* create_mongodb_indexes()
     index_calls |-> 0,              \* calls of create_mongodb_indexes
     data_exists |-> Unset,          \* check_mongodb_data()
     gsheets |-> Unset,              \* check_gsheets_connection()
     migrations |-> 0,               \* calls of run_migration
     migrated |-> Unset,             \* run_migration()
     raised |-> {},                  \* the functions in which something raised
     success |-> Unset,              \* what main returned
     exit_code |-> -1]               \* argument of sys.exit, -1 before it

\* the front-end runs without the script
NotDeploying == DeployRun("none", FALSE, FALSE, FALSE, 0)

(***************************************************************************)
(* The team list.  loadTeamsList sorts a literal array with the default    *)
(* comparison of Array.prototype.sort, which orders strings by their       *)
(* UTF-16 code units, and hands it to populateTeamDropdowns.               *)
(***************************************************************************)
\* some of the names of the array, in the order the array lists them; the
\* second version of app.js lists nine clubs more, two of them here
ListedTeams(v) ==
    <<"Manchester United", "Chelsea", "Arsenal", "Manchester City">>
        \o (IF v = "appB" THEN <<"Bayern Munich", "AC Milan">> ELSE << >>)

\* the UTF-16 code units of a name
CodeUnits(name) ==
    CASE name = "Manchester United" ->
            <<77, 97, 110, 99, 104, 101, 115, 116, 101, 114, 32, 85, 110, 105,
              116, 101, 100>>
      [] name = "Chelsea" -> <<67, 104, 101, 108, 115, 101, 97>>
      [] name = "Arsenal" -> <<65, 114, 115, 101, 110, 97, 108>>
      [] name = "Manchester City" ->
            <<77, 97, 110, 99, 104, 101, 115, 116, 101, 114, 32, 67, 105, 116,
              121>>
      [] name = "Bayern Munich" ->
            <<66, 97, 121, 101, 114, 110, 32, 77, 117, 110, 105, 99, 104>>
      [] name = "AC Milan" -> <<65, 67, 32, 77, 105, 108, 97, 110>>
      [] OTHER -> << >>

\* a < b for two sequences of code units
RECURSIVE UnitsLess(_, _)
UnitsLess(a, b) ==
    IF b = << >> THEN FALSE
    ELSE IF a = << >> THEN TRUE
    ELSE IF Head(a) # Head(b) THEN Head(a) < Head(b)
    ELSE UnitsLess(Tail(a), Tail(b))

\* the comparison of sort() when no compare function is given
StringLess(x, y) == UnitsLess(CodeUnits(x), CodeUnits(y))

RECURSIVE InsertSorted(_, _)
InsertSorted(sorted, x) ==
    IF sorted = << >> THEN <<x>>
    ELSE IF StringLess(x, Head(sorted)) THEN <<x>> \o sorted
    ELSE <<Head(sorted)>> \o InsertSorted(Tail(sorted), x)

\* Array.prototype.sort()
RECURSIVE sort(_)
sort(list) ==
    IF list = << >> THEN << >>
    ELSE InsertSorted(sort(SubSeq(list, 1, Len(list) - 1)), list[Len(list)])

\* populateTeamDropdowns without the two innerHTML assignments
populateTeamDropdowns_NoReset(options, teams) == options \o teams

\* populateTeamDropdowns, for one of the two selects: innerHTML is set to
\* the placeholder option, then one option is appended per team
populateTeamDropdowns(options, teams) == <<Unselected>> \o teams

\* the list loadTeamsList passes on
loadTeamsList(v) == sort(ListedTeams(v))

\* how often the list is loaded in a run of the model
MaxLoads == 2
\* options a select may hold before the list is loaded for the first time
MaxPrior == 2
PriorOptions ==
    UNION {[1..n -> {Unselected, "Arsenal"}] : n \in 0..MaxPrior}

VARIABLES
    variant,              \* which version of the app is loaded
    active,               \* the pages carrying the class "active"
    team1, team2,         \* value of the two team <select>s
    odds1, odds2,         \* text of the two odds inputs
    oddsLabel1, oddsLabel2,   \* team named in the odds labels
    verifyBtnShown,       \* verify-subscription is displayed
    loadingVerification,  \* loading-verification is displayed
    confirmationShown,    \* subscription-confirmed has the class "show"
    continueBtnShown,     \* continue-to-app is displayed
    analysisMessages,     \* children of analysis-messages, by message number
    loadingPrediction,    \* loading-prediction is displayed (part_001)
    resultsShown,         \* prediction-results is displayed (part_001)
    timers,               \* pending setTimeout callbacks, earliest first
    lastCall,             \* arguments of the last call of the generator
    prediction,           \* the last prediction generated
    answered,             \* the request that prediction was generated for
    rendered,             \* what the results elements show
    alertMsg,             \* the alert the last handler raised, "" when none
    generatorWrote,       \* the state the generator assigned in its last run
    goalTable,            \* reference goal-line statistics
    options1, options2,   \* values of the <option>s of the two team selects
    loads,                \* how often loadTeamsList has run
    outstanding,          \* accepted requests not displayed yet, oldest first
    deploy                \* the run of the deploy initialisation script

domVars   == <<active, team1, team2, odds1, odds2, oddsLabel1, oddsLabel2>>
subVars   == <<verifyBtnShown, loadingVerification, confirmationShown, continueBtnShown>>
predVars  == <<lastCall, prediction, answered, rendered, loadingPrediction,
              resultsShown, generatorWrote>>
teamVars == <<options1, options2, loads>>
uiVars == <<variant, domVars, subVars, analysisMessages, timers, predVars,
           alertMsg, goalTable, teamVars, outstanding>>
vars == <<uiVars, deploy,
                   teamVars, outstanding>>

(***************************************************************************)
(* showPage(pageId): every page loses "active"; the page with that id, if  *)
(* there is one, gets it.                                                  *)
(***************************************************************************)
\* showPage without the loop that removes "active" from every page
showPage_KeepsOthers(v, act, pageId) ==
    act \cup (IF pageId \in Pages(v) THEN {pageId} ELSE {})

showPage(v, act, pageId) ==
    (act \ Pages(v)) \cup (IF pageId \in Pages(v) THEN {pageId} ELSE {})

\* teamAbbreviations[teamName] || teamName
getTeamAbbreviation(teamName) ==
    CASE teamName = "Manchester United" -> "Man Utd"
      [] teamName = "Manchester City"   -> "Man City"
      [] teamName = "Tottenham Hotspur" -> "Tottenham"
      [] teamName = "Newcastle United"  -> "Newcastle"
      [] teamName = "West Ham United"   -> "West Ham"
      [] teamName = "Nottingham Forest" -> "N. Forest"
      [] teamName = "Sheffield United"  -> "Sheffield Utd"
      [] teamName = "Borussia Dortmund" -> "Dortmund"
      [] teamName = "Bayer Leverkusen"  -> "Leverkusen"
      [] teamName = "Real Madrid"       -> "Madrid"
      [] teamName = "Atletico Madrid"   -> "Atletico"
      [] teamName = "Paris Saint-Germain" -> "PSG"
      [] teamName = "Inter Milan"       -> "Inter"
      [] teamName = "AC Milan"          -> "Milan"
      [] teamName = "Juventus"          -> "Juve"
      [] teamName = "Barcelona"         -> "Barca"
      [] teamName = "Bayern Munich"     -> "Bayern"
      [] OTHER -> teamName

\* text put in an odds label for a team
LabelFor(v, team) == IF v = "appB" THEN getTeamAbbreviation(team) ELSE team

(***************************************************************************)
(* setTimeout: the queue is kept in firing order (earliest first, equal    *)
(* delays in the order they were set); due is the time left.               *)
(***************************************************************************)
Timer(kind, due, msg, req) == [kind |-> kind, due |-> due, msg |-> msg, req |-> req]

\* a queue in which a timer set later runs before one that is due at the
\* same time
RECURSIVE setTimeout_NewestFirst(_, _)
setTimeout_NewestFirst(ts, tm) ==
    IF ts = << >> THEN <<tm>>
    ELSE IF Head(ts).due < tm.due
         THEN <<Head(ts)>> \o setTimeout_NewestFirst(Tail(ts), tm)
    ELSE <<tm>> \o ts

RECURSIVE setTimeout(_, _)
setTimeout(ts, tm) ==
    IF ts = << >> THEN <<tm>>
    ELSE IF Head(ts).due <= tm.due THEN <<Head(ts)>> \o setTimeout(Tail(ts), tm)
    ELSE <<tm>> \o ts

\* the queue once its first timer has fired: the time it waited has passed
AfterFire(ts) ==
    [i \in 1..(Len(ts) - 1) |-> [ts[i + 1] EXCEPT !.due = @ - ts[1].due]]

PendingPredictions(ts) ==
    Cardinality({i \in 1..Len(ts) : ts[i].kind \in {"predict", "fetch"}})

\* startAnalysisAnimation: one timer per message, 600 ms apart
RECURSIVE MessageTimers(_, _)
MessageTimers(ts, k) ==
    IF k > MessageCount THEN ts
    ELSE MessageTimers(setTimeout(ts, Timer("message", k * MessageStep, k, NoRequest)),
                       k + 1)

\* the queue after an accepted generate-prediction click
AfterGenerateClick(ts, req) ==
    setTimeout(MessageTimers(ts, 1), Timer("predict", PredictDelay, 0, req))

\* the outstanding requests once the result of request r has been displayed:
\* the oldest outstanding r is no longer waiting
RECURSIVE Displayed(_, _)
Displayed(out, r) ==
    IF out = << >> THEN << >>
    ELSE IF Head(out) = r THEN Tail(out)
    ELSE <<Head(out)>> \o Displayed(Tail(out), r)

\* what displayResults / displayPrediction write from a prediction
WinnerText(v, w) == IF v \in {"p000", "p001"} /\ w = "Nul" THEN "Match nul" ELSE w

Render(v, p) ==
    [matchTeams |-> TeamsOf(v, p),
     halfTimeWinner |-> WinnerText(v, WinnerTeamOf(v, p, "half")),
     fullTimeWinner |-> WinnerText(v, WinnerTeamOf(v, p, "full"))]

(***************************************************************************)
(* The state once DOMContentLoaded has run: handlers attached, dropdowns   *)
(* filled, nothing selected, nothing typed.                                *)
(***************************************************************************)
\* loadTeamsList has run once, from the DOMContentLoaded listener
TeamsLoaded ==
    /\ options1 = populateTeamDropdowns(<< >>, loadTeamsList(variant))
    /\ options2 = populateTeamDropdowns(<< >>, loadTeamsList(variant))
    /\ loads = 1

InitPage ==
    /\ variant \in Variants
    /\ active = {SubscriptionPage}
    /\ team1 = Unselected /\ team2 = Unselected
    /\ odds1 = T_empty /\ odds2 = T_empty
    /\ oddsLabel1 = "" /\ oddsLabel2 = ""
    /\ verifyBtnShown = TRUE
    /\ loadingVerification = FALSE
    /\ confirmationShown = FALSE
    /\ continueBtnShown = FALSE
    /\ analysisMessages = << >>
    /\ loadingPrediction = FALSE
    /\ resultsShown = FALSE
    /\ timers = << >>
    /\ lastCall = [called |-> FALSE, req |-> NoRequest]
    /\ prediction = NoPrediction
    /\ answered = [has |-> FALSE, req |-> NoRequest]
    /\ rendered = NothingRendered
    /\ alertMsg = ""
    /\ generatorWrote = {}
    /\ goalTable = GoalTableExample
    /\ TeamsLoaded
    /\ outstanding = << >>

Init == InitPage /\ deploy = NotDeploying

\* the page that holds the team selects (and, in part_001, everything else)
TeamsPage(v) == IF v = "p001" THEN "prediction-page" ELSE "teams-selection-page"
OddsPage(v)  == IF v = "p001" THEN "prediction-page" ELSE "odds-page"
IntroPage(v) == IF v = "p001" THEN "game-intro" ELSE "dashboard-page"

(***************************************************************************)
(* checkSubscription, the click handler of verify-subscription.            *)
(***************************************************************************)
ClickVerify ==
    /\ SubscriptionPage \in active /\ verifyBtnShown
    /\ verifyBtnShown' = FALSE
    /\ IF variant = "p001"
       THEN /\ confirmationShown' = TRUE
            /\ continueBtnShown' = TRUE
            /\ UNCHANGED <<loadingVerification, timers>>
       ELSE /\ loadingVerification' = TRUE
            /\ timers' = setTimeout(timers,
                            Timer("subscription", SubscriptionDelay, 0, NoRequest))
            /\ UNCHANGED <<confirmationShown, continueBtnShown>>
    /\ alertMsg' = IF variant = "p001" THEN "send-check-to-the-bot" ELSE ""
    /\ UNCHANGED <<variant, domVars, analysisMessages, predVars, goalTable, deploy,
                   teamVars, outstanding>>

\* a 1500 ms callback that refuses: the verify button comes back and no
\* confirmation is shown
FireSubscription_Denies ==
    /\ timers # << >> /\ Head(timers).kind = "subscription"
    /\ timers' = AfterFire(timers)
    /\ loadingVerification' = FALSE
    /\ verifyBtnShown' = TRUE
    /\ alertMsg' = ""
    /\ UNCHANGED <<variant, domVars, confirmationShown, continueBtnShown,
                   analysisMessages, predVars, goalTable, deploy,
                   teamVars, outstanding>>

\* the 1500 ms callback of checkSubscription
FireSubscription ==
    /\ timers # << >> /\ Head(timers).kind = "subscription"
    /\ timers' = AfterFire(timers)
    /\ loadingVerification' = FALSE
    /\ confirmationShown' = TRUE
    /\ continueBtnShown' = TRUE
    /\ alertMsg' = ""
    /\ UNCHANGED <<variant, domVars, verifyBtnShown, analysisMessages,
                   predVars, goalTable, deploy,
                   teamVars, outstanding>>

\* continue-to-app
ClickContinue ==
    /\ SubscriptionPage \in active /\ continueBtnShown
    /\ active' = showPage(variant, active, IntroPage(variant))
    /\ alertMsg' = ""
    /\ UNCHANGED <<variant, team1, team2, odds1, odds2, oddsLabel1, oddsLabel2,
                   subVars, analysisMessages, timers, predVars, goalTable, deploy,
                   teamVars, outstanding>>

\* start-prediction
ClickStart ==
    /\ IntroPage(variant) \in active
    /\ active' = showPage(variant, active, TeamsPage(variant))
    /\ alertMsg' = ""
    /\ UNCHANGED <<variant, team1, team2, odds1, odds2, oddsLabel1, oddsLabel2,
                   subVars, analysisMessages, timers, predVars, goalTable, deploy,
                   teamVars, outstanding>>

\* the user picks a team in one of the two dropdowns
SelectTeam ==
    /\ TeamsPage(variant) \in active
    /\ \E t \in TeamNames :
         \/ team1' = t /\ UNCHANGED team2
         \/ team2' = t /\ UNCHANGED team1
    /\ alertMsg' = ""
    /\ UNCHANGED <<variant, active, odds1, odds2, oddsLabel1, oddsLabel2, subVars,
                   analysisMessages, timers, predVars, goalTable, deploy,
                   teamVars, outstanding>>

\* the user fills in the two odds inputs
TypeOdds ==
    /\ OddsPage(variant) \in active
    /\ \E f \in OddsForms : odds1' = f[1] /\ odds2' = f[2]
    /\ alertMsg' = ""
    /\ UNCHANGED <<variant, active, team1, team2, oddsLabel1, oddsLabel2, subVars,
                   analysisMessages, timers, predVars, goalTable, deploy,
                   teamVars, outstanding>>

\* the alert of the team checks, "" when they pass
TeamsAlert(t1, t2) ==
    IF t1 = "" \/ t2 = "" THEN "select-both-teams"
    ELSE IF t1 = t2 THEN "select-different-teams" ELSE ""

\* the alert of the odds checks, "" when they pass
OddsAlert(o1, o2) ==
    IF NoText(o1) \/ NoText(o2) THEN "enter-both-odds"
    ELSE IF LessThan101(parseFloat(o1)) \/ LessThan101(parseFloat(o2))
         THEN "odds-above-1.01" ELSE ""

(***************************************************************************)
(* next-to-odds (app.js, part_000).                                        *)
(***************************************************************************)
ClickNextToOdds ==
    /\ variant # "p001"
    /\ "teams-selection-page" \in active
    /\ IF TeamsAlert(team1, team2) # ""
       THEN UNCHANGED <<active, oddsLabel1, oddsLabel2>>
       ELSE /\ oddsLabel1' = LabelFor(variant, team1)
            /\ oddsLabel2' = LabelFor(variant, team2)
            /\ active' = showPage(variant, active, "odds-page")
    /\ alertMsg' = TeamsAlert(team1, team2)
    /\ UNCHANGED <<variant, team1, team2, odds1, odds2, subVars, analysisMessages,
                   timers, predVars, goalTable, deploy,
                   teamVars, outstanding>>

(***************************************************************************)
(* generate-prediction (app.js, part_000): the odds are checked, the       *)
(* analysis page is shown, the animation and the 4000 ms timer are set.    *)
(* The handler runs while fewer than cap predictions are under way.        *)
(***************************************************************************)
GenerateClick(cap) ==
    /\ variant # "p001"
    /\ "odds-page" \in active
    /\ PendingPredictions(timers) < cap
    /\ IF OddsAlert(odds1, odds2) # ""
       THEN UNCHANGED <<active, analysisMessages, timers, outstanding>>
       ELSE /\ active' = showPage(variant, active, "analysis-page")
            /\ analysisMessages' = << >>
            /\ timers' = AfterGenerateClick(timers, Request(team1, team2, odds1, odds2))
            /\ outstanding' = Append(outstanding, Request(team1, team2, odds1, odds2))
    /\ alertMsg' = OddsAlert(odds1, odds2)
    /\ UNCHANGED <<variant, team1, team2, odds1, odds2, oddsLabel1, oddsLabel2,
                   subVars, predVars, goalTable, deploy, teamVars>>

\* generate-prediction with showPage('analysis-page') moved above the odds
\* checks: a rejected click would leave the odds page
ClickGenerate_ShowPageFirst ==
    /\ variant # "p001"
    /\ "odds-page" \in active
    /\ PendingPredictions(timers) < MaxPending
    /\ active' = showPage(variant, active, "analysis-page")
    /\ IF OddsAlert(odds1, odds2) # ""
       THEN UNCHANGED <<analysisMessages, timers, outstanding>>
       ELSE /\ analysisMessages' = << >>
            /\ timers' = AfterGenerateClick(timers, Request(team1, team2, odds1, odds2))
            /\ outstanding' = Append(outstanding, Request(team1, team2, odds1, odds2))
    /\ alertMsg' = OddsAlert(odds1, odds2)
    /\ UNCHANGED <<variant, team1, team2, odds1, odds2, oddsLabel1, oddsLabel2,
                   subVars, predVars, goalTable, deploy, teamVars>>

ClickGenerate == GenerateClick(MaxPending)

(***************************************************************************)
(* getPrediction, the click handler of predict-button (part_001): only     *)
(* the teams are checked.                                                  *)
(***************************************************************************)
PredictClick(cap) ==
    /\ variant = "p001"
    /\ "prediction-page" \in active
    /\ PendingPredictions(timers) < cap
    /\ IF TeamsAlert(team1, team2) # ""
       THEN UNCHANGED <<loadingPrediction, resultsShown, timers, outstanding>>
       ELSE /\ loadingPrediction' = TRUE
            /\ resultsShown' = FALSE
            /\ timers' = setTimeout(timers,
                   Timer("predict", PredictDelay001, 0,
                         Request(team1, team2, odds1, odds2)))
            /\ outstanding' = Append(outstanding, Request(team1, team2, odds1, odds2))
    /\ alertMsg' = TeamsAlert(team1, team2)
    /\ UNCHANGED <<variant, domVars, subVars, analysisMessages, lastCall, prediction,
                   answered, rendered, generatorWrote, goalTable, deploy, teamVars>>

ClickPredict == PredictClick(MaxPending)

\* a back button that also drops the pending timers, as a clearTimeout on
\* leaving the page would
ClickBack_CancelsTimers ==
    /\ \E pg \in active \cap Pages(variant) :
         \E target \in (IF variant = "p001"
                        THEN (IF pg = "prediction-page" THEN {"game-intro"} ELSE {})
                        ELSE BackTargets(variant, pg)) :
            active' = showPage(variant, active, target)
    /\ timers' = << >>
    /\ alertMsg' = ""
    /\ UNCHANGED <<variant, team1, team2, odds1, odds2, oddsLabel1, oddsLabel2,
                   subVars, analysisMessages, predVars, goalTable, deploy,
                   teamVars, outstanding>>

\* a back button: showPage(data-target)
ClickBack ==
    /\ \E pg \in active \cap Pages(variant) :
         \E target \in (IF variant = "p001"
                        THEN (IF pg = "prediction-page" THEN {"game-intro"} ELSE {})
                        ELSE BackTargets(variant, pg)) :
            active' = showPage(variant, active, target)
    /\ alertMsg' = ""
    /\ UNCHANGED <<variant, team1, team2, odds1, odds2, oddsLabel1, oddsLabel2,
                   subVars, analysisMessages, timers, predVars, goalTable, deploy,
                   teamVars, outstanding>>

\* a back button that tests the page before it calls showPage
ClickBackDangling_TestsPage ==
    /\ variant # "p001"
    /\ active \cap Pages(variant) # {}
    /\ active' = active
    /\ alertMsg' = ""
    /\ UNCHANGED <<variant, team1, team2, odds1, odds2, oddsLabel1, oddsLabel2,
                   subVars, analysisMessages, timers, predVars, goalTable, deploy,
                   teamVars, outstanding>>

\* a back button whose data-target is the id of no element (app.js,
\* part_000): the handler calls showPage with it all the same
ClickBackDangling ==
    /\ variant # "p001"
    /\ active \cap Pages(variant) # {}
    /\ active' = showPage(variant, active, MissingPage)
    /\ alertMsg' = ""
    /\ UNCHANGED <<variant, team1, team2, odds1, odds2, oddsLabel1, oddsLabel2,
                   subVars, analysisMessages, timers, predVars, goalTable, deploy,
                   teamVars, outstanding>>

\* new-prediction-btn (app.js, part_000); the button the results of
\* part_001 carry
ClickNewPrediction ==
    /\ IF variant = "p001"
       THEN "prediction-page" \in active /\ resultsShown
       ELSE "results-page" \in active
    /\ active' = showPage(variant, active, TeamsPage(variant))
    /\ alertMsg' = ""
    /\ UNCHANGED <<variant, team1, team2, odds1, odds2, oddsLabel1, oddsLabel2,
                   subVars, analysisMessages, timers, predVars, goalTable, deploy,
                   teamVars, outstanding>>

\* a message callback of startAnalysisAnimation
FireMessage ==
    /\ timers # << >> /\ Head(timers).kind = "message"
    /\ timers' = AfterFire(timers)
    /\ analysisMessages' = Append(analysisMessages, Head(timers).msg)
    /\ alertMsg' = ""
    /\ UNCHANGED <<variant, domVars, subVars, predVars, goalTable, deploy,
                   teamVars, outstanding>>

\* what the generator itself assigns while it runs: generatePrediction and
\* the callback of fetchPredictionFromAPI in app.js call displayResults,
\* which fills the results elements and shows the results page; the
\* generatePrediction of part_000 and part_001 only returns an object
GeneratorWrites(v) ==
    IF v \in {"appA", "appB"} THEN {"rendered", "active"} ELSE {}

(***************************************************************************)
(* The prediction callback.  app.js (first): generatePrediction and        *)
(* displayResults.  app.js (second): fetchPredictionFromAPI sets the       *)
(* 500 ms timer.  part_000: getPrediction.  part_001: the 2000 ms callback *)
(* of getPrediction.                                                       *)
(***************************************************************************)
FirePredict(tapes) ==
    /\ timers # << >> /\ Head(timers).kind = "predict"
    /\ LET r == Head(timers).req IN
       /\ lastCall' = [called |-> TRUE, req |-> r]
       /\ IF variant = "appB"
          THEN /\ timers' = setTimeout(AfterFire(timers), Timer("fetch", FetchDelay, 0, r))
               /\ generatorWrote' = {"timers"}
               /\ UNCHANGED <<active, prediction, answered, rendered,
                              loadingPrediction, resultsShown, outstanding>>
          ELSE /\ timers' = AfterFire(timers)
               /\ generatorWrote' = GeneratorWrites(variant)
               /\ \E t \in tapes :
                    /\ prediction' = Generate(variant, r.team1, r.team2, r.odds1, r.odds2, t)
                    /\ rendered' = Render(variant, prediction')
               /\ answered' = [has |-> TRUE, req |-> r]
               /\ outstanding' = Displayed(outstanding, r)
               /\ IF variant = "p001"
                  THEN /\ loadingPrediction' = FALSE
                       /\ resultsShown' = TRUE
                       /\ UNCHANGED active
                  ELSE /\ active' = showPage(variant, active, "results-page")
                       /\ UNCHANGED <<loadingPrediction, resultsShown>>
    /\ alertMsg' = ""
    /\ UNCHANGED <<variant, team1, team2, odds1, odds2, oddsLabel1, oddsLabel2,
                   subVars, analysisMessages, goalTable, deploy, teamVars>>

\* the 500 ms callback of fetchPredictionFromAPI
FireFetch(tapes) ==
    /\ timers # << >> /\ Head(timers).kind = "fetch"
    /\ timers' = AfterFire(timers)
    /\ LET r == Head(timers).req IN
         \E t \in tapes :
            /\ prediction' = Generate(variant, r.team1, r.team2, r.odds1, r.odds2, t)
            /\ rendered' = Render(variant, prediction')
            /\ answered' = [has |-> TRUE, req |-> r]
            /\ outstanding' = Displayed(outstanding, r)
    /\ active' = showPage(variant, active, "results-page")
    /\ generatorWrote' = GeneratorWrites(variant)
    /\ alertMsg' = ""
    /\ UNCHANGED <<variant, team1, team2, odds1, odds2, oddsLabel1, oddsLabel2,
                   subVars, analysisMessages, lastCall, loadingPrediction,
                   resultsShown, goalTable, deploy, teamVars>>

TimerPredict == FirePredict(ExtremeTapes)
TimerFetch == FireFetch(ExtremeTapes)

Next ==
    \/ ClickVerify
    \/ FireSubscription
    \/ ClickContinue
    \/ ClickStart
    \/ SelectTeam
    \/ TypeOdds
    \/ ClickNextToOdds
    \/ ClickGenerate
    \/ ClickPredict
    \/ ClickBack
    \/ ClickNewPrediction
    \/ FireMessage
    \/ TimerPredict
    \/ TimerFetch

Spec == Init /\ [][Next]_vars

\* the same, with documents whose back buttons may name a page that does
\* not exist; which page is shown does not depend on the draws, so the
\* generators run on one tape
LowTape == {[i \in 1..TapeLen |-> 0]}
PagesPredict == FirePredict(LowTape)
PagesFetch == FireFetch(LowTape)

NextPages ==
    \/ ClickVerify
    \/ FireSubscription
    \/ ClickContinue
    \/ ClickStart
    \/ SelectTeam
    \/ TypeOdds
    \/ ClickNextToOdds
    \/ ClickGenerate
    \/ ClickPredict
    \/ ClickBack
    \/ ClickBackDangling
    \/ ClickNewPrediction
    \/ FireMessage
    \/ PagesPredict
    \/ PagesFetch

SpecPages == Init /\ [][NextPages]_vars

(***************************************************************************)
(* The generators on their own.  InitEngine is the state right after a     *)
(* click that passed the checks, for every pair of distinct teams and a    *)
(* few odds of at least 1.01; the timers then fire, and the prediction     *)
(* callback draws its tape from Tapes.                                     *)
(***************************************************************************)
ValidOdds == {T_101, T_650}

\* the strong favourite against an outsider: two teams of loadTeamsList,
\* odds 1.20 and 6.50
ScenarioRequest == Request("Manchester City", "Burnley", T_120, T_650)

\* the requests the generators are run on
EngineRequests ==
    {Request(t1, t2, o1, o2) : t1 \in TeamNames, t2 \in TeamNames,
                               o1 \in ValidOdds, o2 \in ValidOdds}
        \cup {ScenarioRequest}

InitEngine ==
    /\ variant \in Variants
    /\ \E rq \in EngineRequests :
         /\ team1 = rq.team1 /\ team2 = rq.team2
         /\ odds1 = rq.odds1 /\ odds2 = rq.odds2
    /\ team1 # team2
    /\ verifyBtnShown = FALSE
    /\ loadingVerification = FALSE
    /\ confirmationShown = TRUE
    /\ continueBtnShown = TRUE
    /\ analysisMessages = << >>
    /\ resultsShown = FALSE
    /\ lastCall = [called |-> FALSE, req |-> NoRequest]
    /\ prediction = NoPrediction
    /\ answered = [has |-> FALSE, req |-> NoRequest]
    /\ rendered = NothingRendered
    /\ alertMsg = ""
    /\ generatorWrote = {}
    /\ deploy = NotDeploying
    /\ goalTable \in GoalTables
    /\ TeamsLoaded
    /\ outstanding = <<Request(team1, team2, odds1, odds2)>>
    /\ IF variant = "p001"
       THEN /\ active = {"prediction-page"}
            /\ oddsLabel1 = "" /\ oddsLabel2 = ""
            /\ loadingPrediction = TRUE
            /\ timers = setTimeout(<< >>, Timer("predict", PredictDelay001, 0,
                                       Request(team1, team2, odds1, odds2)))
       ELSE /\ active = {"analysis-page"}
            /\ oddsLabel1 = LabelFor(variant, team1)
            /\ oddsLabel2 = LabelFor(variant, team2)
            /\ loadingPrediction = FALSE
            /\ timers = AfterGenerateClick(<< >>, Request(team1, team2, odds1, odds2))

EnginePredict == FirePredict(Tapes)
EngineFetch == FireFetch(Tapes)

NextEngine ==
    \/ FireMessage
    \/ EnginePredict
    \/ EngineFetch

SpecEngine == InitEngine /\ [][NextEngine]_vars

(***************************************************************************)
(* The versions with an analysis page, from the odds page on, with the     *)
(* user free to click, navigate and change the teams, and every pending    *)
(* timer firing in the end (the browser runs a callback once its delay has *)
(* passed, and nothing in the scripts clears a timer).                     *)
(***************************************************************************)
AnalysisVariants == Variants \ {"p001"}

InitLive ==
    /\ variant \in AnalysisVariants
    /\ team1 \in TeamNames /\ team2 \in TeamNames /\ team1 # team2
    /\ \E f \in OddsForms : odds1 = f[1] /\ odds2 = f[2]
    /\ active = {"odds-page"}
    /\ oddsLabel1 = LabelFor(variant, team1)
    /\ oddsLabel2 = LabelFor(variant, team2)
    /\ verifyBtnShown = FALSE
    /\ loadingVerification = FALSE
    /\ confirmationShown = TRUE
    /\ continueBtnShown = TRUE
    /\ analysisMessages = << >>
    /\ loadingPrediction = FALSE
    /\ resultsShown = FALSE
    /\ timers = << >>
    /\ lastCall = [called |-> FALSE, req |-> NoRequest]
    /\ prediction = NoPrediction
    /\ answered = [has |-> FALSE, req |-> NoRequest]
    /\ rendered = NothingRendered
    /\ alertMsg = ""
    /\ generatorWrote = {}
    /\ goalTable = GoalTableExample
    /\ TeamsLoaded
    /\ outstanding = << >>
    /\ deploy = NotDeploying

NextLive ==
    \/ SelectTeam
    \/ ClickStart
    \/ ClickNextToOdds
    \/ ClickGenerate
    \/ ClickBack
    \/ ClickNewPrediction
    \/ FireMessage
    \/ TimerPredict
    \/ TimerFetch

SpecLive ==
    /\ InitLive /\ [][NextLive]_vars
    /\ WF_vars(FireMessage) /\ WF_vars(TimerPredict) /\ WF_vars(TimerFetch)

(***************************************************************************)
(* The way in: the subscription check and the pages up to the odds page,   *)
(* with the timer of checkSubscription firing once it is due.              *)
(***************************************************************************)
NextSubscription ==
    \/ ClickVerify
    \/ FireSubscription
    \/ ClickContinue
    \/ ClickStart
    \/ SelectTeam
    \/ ClickNextToOdds
    \/ ClickBack

SpecSubscription ==
    Init /\ [][NextSubscription]_vars /\ WF_vars(FireSubscription)

(***************************************************************************)
(* Requests that overlap: the handlers run again while a prediction is     *)
(* under way.  In part_001 the predict button stays on the active page; in *)
(* the other versions the user gets back to the odds page by a back        *)
(* button.  The user is past the subscription check, the teams are chosen. *)
(***************************************************************************)
MaxOverlap == 2

OverlapGenerate == GenerateClick(MaxOverlap)
OverlapPredict == PredictClick(MaxOverlap)

InitOverlap ==
    /\ variant \in Variants
    /\ team1 \in TeamNames /\ team2 \in TeamNames /\ team1 # team2
    /\ odds1 = T_101 /\ odds2 = T_101
    /\ active = {OddsPage(variant)}
    /\ IF variant = "p001"
       THEN oddsLabel1 = "" /\ oddsLabel2 = ""
       ELSE /\ oddsLabel1 = LabelFor(variant, team1)
            /\ oddsLabel2 = LabelFor(variant, team2)
    /\ verifyBtnShown = FALSE
    /\ loadingVerification = FALSE
    /\ confirmationShown = TRUE
    /\ continueBtnShown = TRUE
    /\ analysisMessages = << >>
    /\ loadingPrediction = FALSE
    /\ resultsShown = FALSE
    /\ timers = << >>
    /\ lastCall = [called |-> FALSE, req |-> NoRequest]
    /\ prediction = NoPrediction
    /\ answered = [has |-> FALSE, req |-> NoRequest]
    /\ rendered = NothingRendered
    /\ alertMsg = ""
    /\ generatorWrote = {}
    /\ goalTable = GoalTableExample
    /\ TeamsLoaded
    /\ outstanding = << >>
    /\ deploy = NotDeploying

NextOverlap ==
    \/ SelectTeam
    \/ ClickNextToOdds
    \/ OverlapGenerate
    \/ OverlapPredict
    \/ ClickBack
    \/ ClickNewPrediction
    \/ FireMessage
    \/ PagesPredict
    \/ PagesFetch

SpecOverlap == InitOverlap /\ [][NextOverlap]_vars

(***************************************************************************)
(* The team list on its own: the two selects hold whatever the document    *)
(* came with, and loadTeamsList runs, the first time from the              *)
(* DOMContentLoaded listener.                                              *)
(***************************************************************************)
LoadTeamsList ==
    /\ loads < MaxLoads
    /\ options1' = populateTeamDropdowns(options1, loadTeamsList(variant))
    /\ options2' = populateTeamDropdowns(options2, loadTeamsList(variant))
    /\ loads' = loads + 1
    /\ UNCHANGED <<variant, domVars, subVars, analysisMessages, timers, predVars,
                   alertMsg, goalTable, outstanding, deploy>>

InitTeams ==
    /\ variant \in Variants
    /\ active = {SubscriptionPage}
    /\ team1 = Unselected /\ team2 = Unselected
    /\ odds1 = T_empty /\ odds2 = T_empty
    /\ oddsLabel1 = "" /\ oddsLabel2 = ""
    /\ verifyBtnShown = TRUE
    /\ loadingVerification = FALSE
    /\ confirmationShown = FALSE
    /\ continueBtnShown = FALSE
    /\ analysisMessages = << >>
    /\ loadingPrediction = FALSE
    /\ resultsShown = FALSE
    /\ timers = << >>
    /\ lastCall = [called |-> FALSE, req |-> NoRequest]
    /\ prediction = NoPrediction
    /\ answered = [has |-> FALSE, req |-> NoRequest]
    /\ rendered = NothingRendered
    /\ alertMsg = ""
    /\ generatorWrote = {}
    /\ goalTable = GoalTableExample
    /\ outstanding = << >>
    /\ deploy = NotDeploying
    /\ options1 \in PriorOptions
    /\ options2 \in PriorOptions
    /\ loads = 0

NextTeams == LoadTeamsList

SpecTeams == InitTeams /\ [][NextTeams]_vars

(***************************************************************************)
(* The deploy initialisation script.  What the modules it imports return   *)
(* (mongo_db, migration) is an input of each step: an object, None, or an  *)
(* exception.                                                              *)
(***************************************************************************)
CallOutcomes == {"object", "none", "raise"}
MigrationOutcomes == {"success", "failure", "raise"}
MatchCounts == {0, 3}

\* get_db_connection() gave a client and the ping went through
check_mongodb_connection(outcome) == PyBool(outcome = "object")

\* get_database() gave a database: matches_count > 0
check_mongodb_data(outcome, matches) == PyBool(outcome = "object" /\ matches > 0)

check_gsheets_connection(outcome) == PyBool(outcome = "object")

\* migration.main() returned a true value
run_migration(outcome) == PyBool(outcome = "success")

create_mongodb_indexes(outcome) == PyBool(outcome = "object")

\* the call of function f went as outcome o says
Called(d, f, o) ==
    IF o = "raise" THEN [d EXCEPT !.raised = @ \cup {f}] ELSE d

\* main returns value v
Return(d, v) == [d EXCEPT !.pc = "return", !.success = v]

\* main, to the USE_MONGODB test
MainConfig ==
    /\ deploy.pc = "main"
    /\ deploy' = IF ~deploy.USE_MONGODB THEN Return(deploy, "True")
                 ELSE [deploy EXCEPT !.pc = "connection"]
    /\ UNCHANGED uiVars

\* if not check_mongodb_connection(): return False
MainConnection ==
    /\ deploy.pc = "connection"
    /\ \E o \in CallOutcomes :
         LET d == [Called(deploy, "check_mongodb_connection", o)
                     EXCEPT !.connection = check_mongodb_connection(o)]
         IN  deploy' = IF d.connection = "False" THEN Return(d, "False")
                       ELSE [d EXCEPT !.pc = "indexes"]
    /\ UNCHANGED uiVars

\* main giving up when create_mongodb_indexes() returns False
MainIndexes_StopsOnFailure ==
    /\ deploy.pc = "indexes"
    /\ \E o \in CallOutcomes :
         LET d == [Called(deploy, "create_mongodb_indexes", o)
                     EXCEPT !.indexes = create_mongodb_indexes(o),
                            !.index_calls = @ + 1]
         IN  deploy' = IF d.indexes = "False" THEN Return(d, "False")
                       ELSE IF d.skip_migration THEN Return(d, "True")
                       ELSE [d EXCEPT !.pc = "data"]
    /\ UNCHANGED uiVars

\* the skip test written so that --force-migration overrides --skip-migration
MainIndexes_ForceOverridesSkip ==
    /\ deploy.pc = "indexes"
    /\ \E o \in CallOutcomes :
         LET d == [Called(deploy, "create_mongodb_indexes", o)
                     EXCEPT !.indexes = create_mongodb_indexes(o),
                            !.index_calls = @ + 1]
         IN  deploy' = IF d.skip_migration /\ ~d.force_migration
                       THEN Return(d, "True")
                       ELSE [d EXCEPT !.pc = "data"]
    /\ UNCHANGED uiVars

\* create_mongodb_indexes(); if args.skip_migration: return True
MainIndexes ==
    /\ deploy.pc = "indexes"
    /\ \E o \in CallOutcomes :
         LET d == [Called(deploy, "create_mongodb_indexes", o)
                     EXCEPT !.indexes = create_mongodb_indexes(o),
                            !.index_calls = @ + 1]
         IN  deploy' = IF d.skip_migration THEN Return(d, "True")
                       ELSE [d EXCEPT !.pc = "data"]
    /\ UNCHANGED uiVars

\* the data test with the flag inverted: if data_exists and force_migration
MainData_FlagInverted ==
    /\ deploy.pc = "data"
    /\ \E o \in CallOutcomes :
         LET d == [Called(deploy, "check_mongodb_data", o) EXCEPT
                     !.data_exists = check_mongodb_data(o, deploy.matches_count)]
         IN  deploy' = IF d.data_exists = "True" /\ d.force_migration
                       THEN Return(d, "True")
                       ELSE [d EXCEPT !.pc = "gsheets"]
    /\ UNCHANGED uiVars

\* data_exists = check_mongodb_data();
\* if data_exists and not args.force_migration: return True
MainData ==
    /\ deploy.pc = "data"
    /\ \E o \in CallOutcomes :
         LET d == [Called(deploy, "check_mongodb_data", o) EXCEPT
                     !.data_exists = check_mongodb_data(o, deploy.matches_count)]
         IN  deploy' = IF d.data_exists = "True" /\ ~d.force_migration
                       THEN Return(d, "True")
                       ELSE [d EXCEPT !.pc = "gsheets"]
    /\ UNCHANGED uiVars

\* main going on to the migration whatever check_gsheets_connection() returns
MainGsheets_IgnoresResult ==
    /\ deploy.pc = "gsheets"
    /\ \E o \in CallOutcomes :
         LET d == [Called(deploy, "check_gsheets_connection", o)
                     EXCEPT !.gsheets = check_gsheets_connection(o)]
         IN  deploy' = [d EXCEPT !.pc = "migration"]
    /\ UNCHANGED uiVars

\* if not check_gsheets_connection(): return False
MainGsheets ==
    /\ deploy.pc = "gsheets"
    /\ \E o \in CallOutcomes :
         LET d == [Called(deploy, "check_gsheets_connection", o)
                     EXCEPT !.gsheets = check_gsheets_connection(o)]
         IN  deploy' = IF d.gsheets = "False" THEN Return(d, "False")
                       ELSE [d EXCEPT !.pc = "migration"]
    /\ UNCHANGED uiVars

\* success = run_migration(); return success
MainMigration ==
    /\ deploy.pc = "migration"
    /\ \E o \in MigrationOutcomes :
         LET d == [Called(deploy, "run_migration", o)
                     EXCEPT !.migrations = @ + 1,
                            !.migrated = run_migration(o)]
         IN  deploy' = Return(d, d.migrated)
    /\ UNCHANGED uiVars

\* sys.exit(0) whatever main returned
ScriptExit_AlwaysZero ==
    /\ deploy.pc = "return"
    /\ deploy' = [deploy EXCEPT !.pc = "exited", !.exit_code = 0]
    /\ UNCHANGED uiVars

\* sys.exit(0 if success else 1)
ScriptExit ==
    /\ deploy.pc = "return"
    /\ deploy' = [deploy EXCEPT !.pc = "exited",
                                !.exit_code = IF deploy.success = "True" THEN 0 ELSE 1]
    /\ UNCHANGED uiVars

\* the script starts with any arguments, configuration and database
InitDeploy ==
    /\ InitPage
    /\ \E force \in BOOLEAN, skip \in BOOLEAN, useMongo \in BOOLEAN,
          matches \in MatchCounts :
         deploy = DeployRun("main", force, skip, useMongo, matches)

NextDeploy ==
    \/ MainConfig
    \/ MainConnection
    \/ MainIndexes
    \/ MainData
    \/ MainGsheets
    \/ MainMigration
    \/ ScriptExit

SpecDeploy == InitDeploy /\ [][NextDeploy]_vars

(***************************************************************************)
(* Properties.                                                             *)
(***************************************************************************)
HasPrediction == answered.has

Abs(x) == IF x < 0 THEN 0 - x ELSE x
MaxOf(a, b) == IF a >= b THEN a ELSE b
Spread(e) == Abs(e.over - e.under)
\* an entry of the table no other entry has a larger spread than
IsWidest(tbl, e) == \A i \in 1..Len(tbl) : Spread(tbl[i]) <= Spread(e)
\* the first of the widest entries
FirstWidest(tbl) ==
    tbl[CHOOSE i \in 1..Len(tbl) :
          /\ IsWidest(tbl, tbl[i])
          /\ \A j \in 1..(i - 1) : ~IsWidest(tbl, tbl[j])]
HasTie(tbl) ==
    \E i, j \in 1..Len(tbl) :
        i # j /\ IsWidest(tbl, tbl[i]) /\ IsWidest(tbl, tbl[j])

\* C1: every prediction holds exactly 2 scorelines for half-time and exactly
\* 2 for full-time, in every version.
C1_TwoScorelinesPerPeriod ==
    HasPrediction =>
        \A per \in Periods : Len(ScoresOf(variant, prediction, per)) = 2

\* C2: a prediction generated for the same request as the one before it is
\* the same prediction.
C2_SameInputsSameOutput ==
    [][(HasPrediction /\ HasPrediction' /\ answered'.req = answered.req)
          => prediction' = prediction]_vars

\* C3: every reported winner probability, half-time and full-time, lies in
\* 50..85.
C3_WinnerProbabilityBand ==
    HasPrediction =>
        \A per \in Periods : WinnerProbOf(variant, prediction, per) \in 50..85

\* C4: every reported scoreline confidence is an integer in 45..75.
C4_ConfidenceBand ==
    HasPrediction =>
        \A per \in Periods :
            \A i \in DOMAIN ScoresOf(variant, prediction, per) :
                ScoresOf(variant, prediction, per)[i].confidence \in 45..75

\* C5: in each period the winner agrees with the first scoreline: more home
\* goals than away goals gives team1, fewer gives team2, as many gives a draw.
C5_WinnerAgreesWithTopScore ==
    HasPrediction =>
        \A per \in Periods :
            LET top == ScoresOf(variant, prediction, per)[1].score
                w   == WinnerTeamOf(variant, prediction, per)
                tms == TeamsOf(variant, prediction)
            IN  /\ top[1] > top[2] => w = tms[1]
                /\ top[1] < top[2] => w = tms[2]
                /\ top[1] = top[2] => w \in {"Match nul", "Nul"}

\* C6: in each period the reported goal line is an entry of the period's
\* table with the largest |over - under|, reported with the majority side
\* (over iff over > under) and the majority percentage.
C6_GoalLineIsWidest ==
    HasPrediction =>
        \A per \in Periods :
            LET g == GoalReportOf(variant, prediction, per) IN
            /\ g.reported
            /\ \E i \in 1..Len(goalTable[per]) :
                 LET e == goalTable[per][i] IN
                 /\ e.line = g.line
                 /\ IsWidest(goalTable[per], e)
                 /\ g.hasSide
                 /\ g.isOver = (e.over > e.under)
                 /\ g.percentage = MaxOf(e.over, e.under)

\* C7: when two entries of a period's table share the largest
\* |over - under|, the reported goal line is the first of them.
C7_GoalLineTieFirstListed ==
    HasPrediction =>
        \A per \in Periods :
            HasTie(goalTable[per]) =>
                LET g == GoalReportOf(variant, prediction, per) IN
                g.reported /\ g.line = FirstWidest(goalTable[per]).line

\* a prediction timer was set by the step
RequestAccepted == PendingPredictions(timers') = PendingPredictions(timers) + 1

\* C8: in every version a click with both teams chosen and odds 1.01 for
\* both is accepted, and one in which either odds is 1.00 is rejected.
C8_OddsBoundary ==
    [][((ClickGenerate \/ ClickPredict) /\ TeamsAlert(team1, team2) = "")
          => /\ (odds1 = T_101 /\ odds2 = T_101) => RequestAccepted
             /\ (odds1 = T_100 \/ odds2 = T_100) => ~RequestAccepted]_vars

\* C9: whenever the generator is invoked, both odds parse to a number that
\* is at least 1.01.
C9_GeneratorOddsValid ==
    lastCall.called =>
        /\ AtLeast101(parseFloat(lastCall.req.odds1))
        /\ AtLeast101(parseFloat(lastCall.req.odds2))

\* C10: the generator is never invoked with team1 equal to team2 or with a
\* team unselected.  In app.js and part_000 only next-to-odds checks the
\* teams, so this depends on which pages carry a back button and on their
\* data-target: it fails when the results page has one that leads (directly
\* or through the analysis page) to the odds page, and holds when only the
\* teams and odds pages have one.
C10_GeneratorTeamsValid ==
    lastCall.called =>
        /\ lastCall.req.team1 # Unselected
        /\ lastCall.req.team2 # Unselected
        /\ lastCall.req.team1 # lastCall.req.team2

\* C11: a next-to-odds, generate-prediction or predict-button click that the
\* checks reject (it raises an alert) changes nothing: the active page, the
\* odds labels, the loading indicator, the analysis messages, the timers and
\* the results all stay as they were.
C11_RejectedClickChangesNothing ==
    [][((ClickNextToOdds \/ ClickGenerate \/ ClickPredict) /\ alertMsg' # "")
          => UNCHANGED <<variant, domVars, subVars, analysisMessages, timers,
                         predVars, goalTable>>]_vars

\* a generate-prediction click has just been rejected for odds below 1.01
C11_Witness ==
    /\ alertMsg = "odds-above-1.01"
    /\ "odds-page" \in active
    /\ PendingPredictions(timers) = 0

\* the overall confidence level, in the versions that report one
HasConfidenceLevel(v) == v \in {"p000", "p001"}

\* C13: every percentage of a prediction (scoreline confidences, winner
\* probabilities, goal-line percentage, overall confidence level) is an
\* integer in 0..100.
C13_PercentagesInRange ==
    HasPrediction =>
        /\ \A per \in Periods :
              /\ \A i \in DOMAIN ScoresOf(variant, prediction, per) :
                    ScoresOf(variant, prediction, per)[i].confidence \in 0..100
              /\ WinnerProbOf(variant, prediction, per) \in 0..100
              /\ GoalReportOf(variant, prediction, per).hasSide =>
                    GoalReportOf(variant, prediction, per).percentage \in 0..100
        /\ HasConfidenceLevel(variant) => prediction.confidence_level \in 0..100

\* a prediction whose half-time winner probability and first confidence are
\* the largest the generators produce
C13_Witness ==
    /\ HasPrediction
    /\ WinnerProbOf(variant, prediction, "half") = 89
    /\ ScoresOf(variant, prediction, "half")[1].confidence = 89
    /\ prediction.confidence_level = 89

\* C14: in every version a prediction holds, for each period, one winner
\* verdict (team1, team2 or a draw) with a probability, and one goal-line
\* recommendation made of a threshold, an over/under side and a percentage.
C14_ResultShape ==
    HasPrediction =>
        \A per \in Periods :
            LET tms == TeamsOf(variant, prediction)
                g   == GoalReportOf(variant, prediction, per)
            IN  /\ WinnerTeamOf(variant, prediction, per)
                       \in {tms[1], tms[2], "Match nul", "Nul"}
                /\ WinnerProbOf(variant, prediction, per) \in Int
                /\ g.reported
                /\ g.hasSide

\* C15: the prediction operation changes no shared state while it runs: not
\* the active page, not a rendered element, nothing but its returned result.
C15_GeneratorIsPure ==
    lastCall.called => generatorWrote = {}

\* C16: in each period the first scoreline's confidence is at least the
\* second's, and the two scorelines are different scores.
C16_ScorelinesRanked ==
    HasPrediction =>
        \A per \in Periods :
            LET sc == ScoresOf(variant, prediction, per)
            IN  /\ sc[1].confidence >= sc[2].confidence
                /\ sc[1].score # sc[2].score

\* C17: for Manchester City against Burnley at odds 1.20 and 6.50, the win
\* probability reported for team1 is 85.
C17_FavouriteGetsMaximum ==
    (HasPrediction /\ answered.req = ScenarioRequest) =>
        \A per \in Periods :
            WinnerTeamOf(variant, prediction, per) = ScenarioRequest.team1
                => WinnerProbOf(variant, prediction, per) = 85

\* main has returned
MainReturned == deploy.pc \in {"return", "exited"}

\* C18: with --skip-migration run_migration is never called and the Google
\* Sheets connection is never checked, whatever the database holds and even
\* with --force-migration; and main returns True whenever MongoDB is disabled
\* or its connection check succeeds.
C18_SkipMigration ==
    deploy.skip_migration =>
        /\ deploy.migrations = 0
        /\ deploy.gsheets = Unset
        /\ (MainReturned /\ (~deploy.USE_MONGODB \/ deploy.connection = "True"))
              => deploy.success = "True"

\* a run with both flags on a reachable, empty database has exited with 0
C18_Witness ==
    /\ deploy.pc = "exited"
    /\ deploy.skip_migration /\ deploy.force_migration
    /\ deploy.USE_MONGODB /\ deploy.connection = "True"
    /\ deploy.matches_count = 0
    /\ deploy.exit_code = 0

ClickRequests ==
    {r \in {Request(t1, t2, f[1], f[2]) : t1 \in TeamNames, t2 \in TeamNames,
                                         f \in OddsForms} :
        OddsAlert(r.odds1, r.odds2) = ""}

\* a prediction timer set by an accepted click on request r is pending
PendingFor(r) ==
    \E i \in 1..Len(timers) :
        timers[i].kind \in {"predict", "fetch"} /\ timers[i].req = r

\* the results page is active and shows the teams of request r
ResultsShownFor(r) ==
    /\ "results-page" \in active
    /\ rendered.matchTeams = <<r.team1, r.team2>>

\* C20: in the versions with an analysis page, an accepted
\* generate-prediction click is eventually followed by results-page being
\* the active page and showing the team names captured at the click,
\* whatever the user does in between.
C20_ResultsEventuallyShown ==
    \A r \in ClickRequests : PendingFor(r) ~> ResultsShownFor(r)

\* the results of a request are shown although the user has meanwhile
\* chosen another team1
C20_Witness ==
    /\ answered.has
    /\ ResultsShownFor(answered.req)
    /\ team1 # answered.req.team1
    /\ timers = << >>


\* the page a handler passes to showPage in this step, for the handlers that
\* pass the id of a page of the document
ShownPage(pg) ==
    \/ pg = IntroPage(variant) /\ ClickContinue
    \/ pg = TeamsPage(variant) /\ (ClickStart \/ ClickNewPrediction)
    \/ pg = "odds-page" /\ alertMsg' = "" /\ ClickNextToOdds
    \/ pg = "analysis-page" /\ alertMsg' = "" /\ ClickGenerate
    \/ pg = "results-page" /\ PagesFetch
    \/ pg = "results-page" /\ variant \in {"appA", "p000"} /\ PagesPredict
    \/ pg = "game-intro" /\ variant = "p001" /\ ClickBack

\* C23: at most one page is active before and after every step, and a step
\* in which showPage(X) is called for a page X of the document leaves X the
\* only active page.
C23_OnePageActive ==
    [][/\ Cardinality(active) <= 1 /\ Cardinality(active') <= 1
       /\ \A pg \in Pages(variant) : ShownPage(pg) => active' = {pg}
       /\ ClickBack => (active' \subseteq Pages(variant)
                           /\ Cardinality(active') = 1)]_vars

\* the results page has replaced the analysis page
C23_Witness ==
    /\ active = {"results-page"}
    /\ answered.has
    /\ timers = << >>

\* C24: showPage called with an identifier that matches no page leaves no
\* page active; the page that was active is not restored by it.
C24_MissingPageClearsActive ==
    [][ClickBackDangling => (active # {} /\ active' = {})]_vars

\* no page is active after a back button with a dangling target, while the
\* rest of the document is as it was on the odds page
C24_Witness ==
    /\ active = {}
    /\ oddsLabel1 # ""
    /\ continueBtnShown

\* the timer of checkSubscription is pending with its full delay
SubscriptionTimerSet(ts) ==
    \E i \in 1..Len(ts) :
        ts[i].kind = "subscription" /\ ts[i].due = SubscriptionDelay

\* C25: a click on verify-subscription hides the verify button; in part_001
\* the confirmation and continue-to-app are shown by the click itself, in
\* app.js and part_000 the click sets the 1500 ms timer and they are shown
\* when it fires.  Once the button is hidden the confirmation and the
\* continue button are eventually shown, and they are never taken back.
C25_SubscriptionAlwaysGranted ==
    /\ [][/\ ClickVerify =>
               /\ ~verifyBtnShown'
               /\ IF variant = "p001"
                  THEN confirmationShown' /\ continueBtnShown'
                  ELSE SubscriptionTimerSet(timers')
          /\ (confirmationShown /\ continueBtnShown)
                => (confirmationShown' /\ continueBtnShown')]_vars
    /\ ~verifyBtnShown ~> (confirmationShown /\ continueBtnShown)

\* the timer of app.js has fired: the confirmation is shown, the loading
\* indicator is gone and the user is still on the subscription page
C25_Witness ==
    /\ variant = "appA"
    /\ ~verifyBtnShown /\ ~loadingVerification
    /\ confirmationShown /\ continueBtnShown
    /\ active = {SubscriptionPage}
    /\ timers = << >>

\* the list has no name twice
NoDuplicates(list) ==
    \A i, j \in 1..Len(list) : list[i] = list[j] => i = j

\* every name of the list comes before the next one
IsSorted(list) ==
    \A i \in 1..(Len(list) - 1) : StringLess(list[i], list[i + 1])

\* the names of a list
Names(list) == {list[i] : i \in 1..Len(list)}

\* C26: whatever the two selects held and however often the list has been
\* loaded, after loadTeamsList each select holds the placeholder followed by
\* one option per team of the static list, sorted by code units, without
\* duplicates, and both selects hold the same options; loading the list
\* again changes no option.
C26_DropdownsIdempotent ==
    loads > 0 =>
        /\ options1 = options2
        /\ Head(options1) = Unselected
        /\ Names(Tail(options1)) = Names(ListedTeams(variant))
        /\ Len(Tail(options1)) = Len(ListedTeams(variant))
        /\ NoDuplicates(Tail(options1))
        /\ IsSorted(Tail(options1))

\* the list of the second version of app.js has been loaded twice, over
\* whatever the selects held: "AC Milan" comes first, before
\* "Arsenal", and the two Manchester clubs come last
C26_Witness ==
    /\ loads = 2
    /\ variant = "appB"
    /\ options1 = <<Unselected, "AC Milan", "Arsenal", "Bayern Munich", "Chelsea",
                    "Manchester City", "Manchester United">>

\* a prediction callback displays a result in this step
DisplayStep == PagesFetch \/ (variant # "appB" /\ PagesPredict)

\* C21: of the requests that are under way, the one whose result is
\* displayed next is always the one submitted first, so results appear in
\* submission order and the last one displayed, which stays on screen, is
\* that of the most recent request.
C21_DisplayedInSubmissionOrder ==
    [][DisplayStep =>
          /\ outstanding # << >>
          /\ answered'.req = Head(outstanding)
          /\ rendered'.matchTeams = <<Head(outstanding).team1,
                                      Head(outstanding).team2>>
          /\ outstanding' = Tail(outstanding)]_vars

\* part_001: the result of the first request is on screen while the timer
\* of another request, set before the first one fired, is about to fire
C21_Witness ==
    /\ variant = "p001"
    /\ answered.has /\ resultsShown
    /\ Len(outstanding) = 1
    /\ outstanding[1].team1 # answered.req.team1
    /\ rendered.matchTeams = <<answered.req.team1, answered.req.team2>>
    /\ Len(timers) = 1
    /\ timers[1].kind = "predict" /\ timers[1].due < PredictDelay001

\* the messages of startAnalysisAnimation, by number, in the listed order
ListedMessages == [i \in 1..MessageCount |-> i]

IsPrefix(a, b) == Len(a) <= Len(b) /\ \A i \in 1..Len(a) : a[i] = b[i]

\* C22: the message container always holds a prefix of the six listed
\* messages, and it holds all six when the prediction is displayed.  It
\* holds as long as no second animation starts while the timers of the
\* first are pending, that is when the analysis page has no back button
\* that leads to the odds page or further back; with such a button the
\* container receives the messages of both animations.
C22_MessagesArePrefix ==
    /\ IsPrefix(analysisMessages, ListedMessages)
    /\ (variant # "p001" /\ answered.has /\ outstanding = << >>)
          => analysisMessages = ListedMessages

\* C27: run_migration is called at most once in a run, and only after
\* check_mongodb_connection and then check_gsheets_connection have returned
\* True in that run; with USE_MONGODB false main returns True and has called
\* no check, created no index and run no migration.
C27_MigrationAfterBothChecks ==
    /\ deploy.migrations <= 1
    /\ (deploy.migrations = 1 \/ deploy.pc = "migration") =>
          deploy.connection = "True" /\ deploy.gsheets = "True"
    /\ deploy.gsheets # Unset => deploy.connection = "True"
    /\ (MainReturned /\ ~deploy.USE_MONGODB) =>
          /\ deploy.success = "True"
          /\ deploy.connection = Unset /\ deploy.data_exists = Unset
          /\ deploy.gsheets = Unset
          /\ deploy.index_calls = 0 /\ deploy.migrations = 0

\* a run on an empty database has migrated and exited with 0
C27_Witness ==
    /\ deploy.pc = "exited"
    /\ deploy.migrations = 1 /\ deploy.migrated = "True"
    /\ deploy.data_exists = "False"
    /\ ~deploy.force_migration
    /\ deploy.exit_code = 0

\* what main returns once the connection check has succeeded, read off
\* everything but create_mongodb_indexes
ReturnButForIndexes(d) ==
    IF d.skip_migration THEN "True"
    ELSE IF d.data_exists = "True" /\ ~d.force_migration THEN "True"
    ELSE IF d.gsheets = "False" THEN "False"
    ELSE d.migrated

\* C28: create_mongodb_indexes is called at most once; it has been called
\* exactly once as soon as main is past it, which is before the data check
\* and the migration decision, and in every run that returns after a
\* successful connection check, skipped migration included; what it returns
\* does not change what main returns.
C28_IndexesOnceAndIgnored ==
    /\ deploy.index_calls <= 1
    /\ deploy.index_calls = 1 => deploy.connection = "True"
    /\ (deploy.pc \in {"data", "gsheets", "migration"}
           \/ deploy.data_exists # Unset) => deploy.index_calls = 1
    /\ (MainReturned /\ deploy.connection = "True") =>
          /\ deploy.index_calls = 1
          /\ deploy.success = ReturnButForIndexes(deploy)

\* index creation raised, and the run went on to migrate and exit with 0
C28_Witness ==
    /\ deploy.pc = "exited"
    /\ deploy.indexes = "False"
    /\ "create_mongodb_indexes" \in deploy.raised
    /\ deploy.migrations = 1
    /\ deploy.exit_code = 0

\* the result field of each function main calls
ResultOf(d, f) ==
    CASE f = "check_mongodb_connection" -> d.connection
      [] f = "create_mongodb_indexes"   -> d.indexes
      [] f = "check_mongodb_data"       -> d.data_exists
      [] f = "check_gsheets_connection" -> d.gsheets
      [] f = "run_migration"            -> d.migrated

=============================================================================
